---- MODULE Spec2Model ----
(***************************************************************************)
(* Zag-NetStats (cmd/main.go): a poller of one network interface's byte    *)
(* counters that prints transfer speed and cumulative usage every tick.    *)
(*                                                                         *)
(* Numbers.  The counters and every quantity derived from them are Go      *)
(* uint64.  A uint64 is written here as its four 16-bit limbs, least       *)
(* significant first, so that sums and differences wrap at 2^64 exactly    *)
(* as the machine's do.  A float64 is written as an exact rational: a      *)
(* natural numerator over a product of small divisors.  For the            *)
(* comparisons of calculateSpeed and calculateUsage this is what the       *)
(* machine computes: every threshold is a power of two, a byte count below *)
(* 2^53 converts exactly, one of 2^53 or more is above 1024^3 * 3600 both  *)
(* before and after conversion, and a quotient that falls short of a       *)
(* threshold does so by 1/3600 or more, far beyond one rounding step.      *)
(* Displayed values are the exact quotient rounded half away from zero     *)
(* (math.Round) to the configured number of decimals, kept as the integer  *)
(* count of 10^-precision units.                                           *)
(***************************************************************************)
EXTENDS Integers, Sequences, FiniteSets, TLC

\* ------------------------------------------------------------------ bounds
MaxReading == 2      \* the host's counters take the readings 0..MaxReading
MaxOffset == 1       \* scaler inputs lie within MaxOffset of a unit boundary
SentStep == 1572864  \* bytes sent between one reading and the next
RecvStep == 700      \* bytes received at the odd readings

\* -------------------------------------------------- naturals as limb lists
Base == 65536

Max(a, b) == IF a >= b THEN a ELSE b

RECURSIVE Strip(_)
Strip(a) ==
    IF a = <<>> THEN <<>>
    ELSE IF a[Len(a)] = 0 THEN Strip(SubSeq(a, 1, Len(a) - 1))
    ELSE a

Pad(a, n) == a \o [i \in 1..(n - Len(a)) |-> 0]

\* a natural below 2^31 as a limb list
FromNat(n) == Strip(<<n % Base, n \div Base>>)

RECURSIVE AddLimbs(_, _, _)
AddLimbs(a, b, c) ==
    IF a = <<>> THEN (IF c = 0 THEN <<>> ELSE <<c>>)
    ELSE LET s == Head(a) + Head(b) + c
         IN  <<s % Base>> \o AddLimbs(Tail(a), Tail(b), s \div Base)

BigAdd(a, b) ==
    LET n == Max(Len(a), Len(b))
    IN  Strip(AddLimbs(Pad(a, n), Pad(b, n), 0))

\* a * m for 0 <= m < 2^15
RECURSIVE MulLimbs(_, _, _)
MulLimbs(a, m, c) ==
    IF a = <<>> THEN (IF c = 0 THEN <<>> ELSE <<c>>)
    ELSE LET s == Head(a) * m + c
         IN  <<s % Base>> \o MulLimbs(Tail(a), m, s \div Base)

BigMul(a, m) == Strip(MulLimbs(a, m, 0))

\* a * m1 * m2 * ... for a list of factors
RECURSIVE BigMulAll(_, _)
BigMulAll(a, ms) ==
    IF ms = <<>> THEN Strip(a) ELSE BigMulAll(BigMul(a, Head(ms)), Tail(ms))

\* floor(a / d) with its remainder, for 1 <= d <= 2^15
RECURSIVE DivLimbs(_, _)
DivLimbs(a, d) ==
    IF a = <<>> THEN [q |-> <<>>, r |-> 0]
    ELSE LET hi  == DivLimbs(Tail(a), d)
             cur == hi.r * Base + Head(a)
         IN  [q |-> <<cur \div d>> \o hi.q, r |-> cur % d]

BigDiv(a, d) == Strip(DivLimbs(a, d).q)

\* floor(a / (d1 * d2 * ...))
RECURSIVE BigDivAll(_, _)
BigDivAll(a, ds) ==
    IF ds = <<>> THEN Strip(a) ELSE BigDivAll(BigDiv(a, Head(ds)), Tail(ds))

\* a < b, on stripped limb lists
RECURSIVE LessLimbs(_, _)
LessLimbs(a, b) ==
    IF Len(a) # Len(b) THEN Len(a) < Len(b)
    ELSE IF a = <<>> THEN FALSE
    ELSE IF a[Len(a)] # b[Len(b)] THEN a[Len(a)] < b[Len(b)]
    ELSE LessLimbs(SubSeq(a, 1, Len(a) - 1), SubSeq(b, 1, Len(b) - 1))

BigLess(a, b) == LessLimbs(Strip(a), Strip(b))
BigGeq(a, b) == ~BigLess(a, b)
BigEq(a, b) == Strip(a) = Strip(b)

\* ------------------------------------------------------------------ uint64
Limbs64 == 4
MaxLimb == 65535

Wrap64(a) == Pad(SubSeq(a, 1, IF Len(a) < Limbs64 THEN Len(a) ELSE Limbs64), Limbs64)

U64(n) == Wrap64(FromNat(n))
Zero64 == U64(0)
TwoTo64 == <<0, 0, 0, 0, 1>>

\* uint64 addition: the carry out of the top limb is dropped
Add64(a, b) == Wrap64(BigAdd(a, b))

\* variant: a difference below zero is clamped to zero
Sub64_Clamped(a, b) ==
    LET nb == [i \in 1..Limbs64 |-> MaxLimb - b[i]]
    IN  IF BigLess(a, b) THEN Wrap64(<<>>) ELSE Wrap64(BigAdd(BigAdd(a, nb), <<1>>))

\* uint64 subtraction: a + (2^64 - 1 - b) + 1, the carry dropped
Sub64(a, b) ==
    LET nb == [i \in 1..Limbs64 |-> MaxLimb - b[i]]
    IN  Wrap64(BigAdd(BigAdd(a, nb), <<1>>))

\* ----------------------------------------------------------------- float64
KB == 1024
MB == KB * 1024
GB == MB * 1024

\* a divisor as a list of factors of at most 2^15 (for powers of 1024 and
\* for the refresh interval)
RECURSIVE Factors(_)
Factors(k) ==
    IF k = 1 THEN <<>>
    ELSE IF k <= 32768 THEN <<k>>
    ELSE <<KB>> \o Factors(k \div KB)

float64(bytes) == [num |-> Strip(bytes), den |-> <<>>]

\* x / k
FDiv(x, k) == [num |-> x.num, den |-> x.den \o Factors(k)]

\* x >= t for a natural threshold t below 2^31
FGeq(x, t) == BigGeq(x.num, BigMulAll(FromNat(t), x.den))

\* x > t
FGt(x, t) == BigLess(BigMulAll(FromNat(t), x.den), x.num)

RECURSIVE Pow10(_)
Pow10(p) == IF p = 0 THEN <<>> ELSE <<10>> \o Pow10(p - 1)

\* round: math.Round(value * 10^precision) / 10^precision, as the count
\* of 10^-precision units; floor((2 n 10^p + d) / (2 d)) rounds n 10^p / d
\* half away from zero
round(value, precision) ==
    LET scaled == BigMulAll(value.num, Pow10(precision))
        d      == BigMulAll(<<1>>, value.den)
    IN  BigDivAll(BigAdd(BigMul(scaled, 2), d), <<2>> \o value.den)

\* variant: > in place of >=
calculateSpeed_Strict(bytes, interval, precision) ==
    LET speed == FDiv(float64(bytes), interval)
    IN  IF FGt(speed, GB)
          THEN [Value |-> round(FDiv(speed, GB), precision), Unit |-> "GB/s"]
        ELSE IF FGt(speed, MB)
          THEN [Value |-> round(FDiv(speed, MB), precision), Unit |-> "MB/s"]
        ELSE IF FGt(speed, KB)
          THEN [Value |-> round(FDiv(speed, KB), precision), Unit |-> "KB/s"]
        ELSE [Value |-> round(speed, precision), Unit |-> "B/s"]

calculateSpeed(bytes, interval, precision) ==
    LET speed == FDiv(float64(bytes), interval)
    IN  IF FGeq(speed, GB)
          THEN [Value |-> round(FDiv(speed, GB), precision), Unit |-> "GB/s"]
        ELSE IF FGeq(speed, MB)
          THEN [Value |-> round(FDiv(speed, MB), precision), Unit |-> "MB/s"]
        ELSE IF FGeq(speed, KB)
          THEN [Value |-> round(FDiv(speed, KB), precision), Unit |-> "KB/s"]
        ELSE [Value |-> round(speed, precision), Unit |-> "B/s"]

\* variant: > in place of >=
calculateUsage_Strict(bytes, precision) ==
    LET usage == float64(bytes)
    IN  IF FGt(usage, GB)
          THEN [Value |-> round(FDiv(usage, GB), precision), Unit |-> "GB"]
        ELSE IF FGt(usage, MB)
          THEN [Value |-> round(FDiv(usage, MB), precision), Unit |-> "MB"]
        ELSE IF FGt(usage, KB)
          THEN [Value |-> round(FDiv(usage, KB), precision), Unit |-> "KB"]
        ELSE [Value |-> round(usage, precision), Unit |-> "B"]

calculateUsage(bytes, precision) ==
    LET usage == float64(bytes)
    IN  IF FGeq(usage, GB)
          THEN [Value |-> round(FDiv(usage, GB), precision), Unit |-> "GB"]
        ELSE IF FGeq(usage, MB)
          THEN [Value |-> round(FDiv(usage, MB), precision), Unit |-> "MB"]
        ELSE IF FGeq(usage, KB)
          THEN [Value |-> round(FDiv(usage, KB), precision), Unit |-> "KB"]
        ELSE [Value |-> round(usage, precision), Unit |-> "B"]

\* -------------------------------------------------------- the host's counters
\* one entry of net.IOCounters(true)
IOStat(name, sent, recv) == [Name |-> name, BytesSent |-> sent, BytesRecv |-> recv]

\* net.IOCountersStat{}
ZeroIO == IOStat("", Zero64, Zero64)

\* the readings eth0's counters may show: the sent counter grows with the
\* reading, the received counter is up at the odd ones, so that between two
\* readings both counters may rise, both may fall, or one rise as the other falls
Reading(k) == IOStat("eth0", U64(k * SentStep), U64((k % 2) * RecvStep))

\* what the operating system may answer to one query: an error, or the list
\* of the interfaces present, with or without eth0
OSResponses ==
    {[err |-> TRUE, list |-> <<>>]}
    \cup {[err |-> FALSE, list |-> <<IOStat("lo", U64(7), U64(7))>>]}
    \cup {[err |-> FALSE, list |-> <<IOStat("lo", U64(7), U64(7)), Reading(k)>>] :
            k \in 0..MaxReading}

RECURSIVE FirstNamed(_, _)
FirstNamed(netIO, ifaceName) ==
    IF netIO = <<>> THEN [io |-> ZeroIO, err |-> "interface not found"]
    ELSE IF Head(netIO).Name = ifaceName THEN [io |-> Head(netIO), err |-> "nil"]
    ELSE FirstNamed(Tail(netIO), ifaceName)

getInterfaceIOCounters(ifaceName, os) ==
    IF os.err THEN [io |-> ZeroIO, err |-> "query error"]
    ELSE FirstNamed(os.list, ifaceName)

\* ------------------------------------------------------------------- state
VARIABLES
    interfaceName, refreshInterval, precision, format,  \* the flags, then the monitor's fields
    pc,              \* "main", "collectStats", "select", "tick", "exited"
    exitCode,        \* process exit status once pc = "exited", else -1
    interrupt,       \* nm.interrupt (capacity 1): a signal is buffered
    tickerC,         \* ticker.C (capacity 1): a tick is buffered
    totalSentStart, totalRecvStart, prevNetIO, currentNetIO,
    sentBytes, recvBytes, totalSent, totalRecv,
    usageBytes,      \* the argument totalSent+totalRecv of the third calculateUsage
    stats,           \* nm.stats
    stdout,          \* last line printed and the parity of the number of lines
    stderr,          \* last message logged and the parity of the number of messages
    good,            \* history: the last two successful query results, newest first
    sumSent, sumRecv, \* history: uint64 sums of every sentBytes / recvBytes
    nondecreasing,   \* history: no successful query read less than the one before
    queried,         \* history: "none", "initial" (one query), "loop" (queries from the loop)
    skipped,         \* history: "pending" after a failed tick, "recovered" once a tick followed it
    arg, ret         \* the unit scaler called on its own: arguments and results

flags == <<interfaceName, refreshInterval, precision, format>>
locals == <<totalSentStart, totalRecvStart, prevNetIO, currentNetIO,
            sentBytes, recvBytes, totalSent, totalRecv, usageBytes>>
history == <<good, sumSent, sumRecv, nondecreasing, queried, skipped>>
scaler == <<arg, ret>>
vars == <<flags, pc, exitCode, interrupt, tickerC, locals, stats,
          stdout, stderr, history, scaler>>

ZeroScaled == [Value |-> <<>>, Unit |-> ""]

\* NetStats{}
ZeroStats ==
    [Interface |-> "", SentSpeed |-> ZeroScaled, RecvSpeed |-> ZeroScaled,
     TotalSent |-> ZeroScaled, TotalRecv |-> ZeroScaled, TotalUsage |-> ZeroScaled]

NoLine == [format |-> "", precision |-> 0, stats |-> ZeroStats]
NoArg == [bytes |-> Zero64, interval |-> 0, precision |-> 0]
NoRet == [speed |-> ZeroScaled, usage |-> ZeroScaled]

Running == pc \in {"select", "tick"}
Stopped == pc = "exited" /\ exitCode = 0

\* the flag defaults of main
CommandLine(i, t, p, f) == [i |-> i, t |-> t, p |-> p, f |-> f]
Defaults == CommandLine("", 1, 2, "table")

\* the command lines tried: three that pass the checks, at the defaults and at
\* the ends of the ranges, and one or two that break each check
CommandLines ==
    { [Defaults EXCEPT !.i = "eth0"],
      CommandLine("eth0", 2, 0, "json"),
      CommandLine("eth0", 3600, 6, "json"),
      Defaults,
      [Defaults EXCEPT !.i = "eth0", !.p = 7],
      [Defaults EXCEPT !.i = "eth0", !.p = -1],
      [Defaults EXCEPT !.i = "eth0", !.t = 0],
      [Defaults EXCEPT !.i = "eth0", !.t = 3601],
      [Defaults EXCEPT !.i = "eth0", !.f = "xml"],
      CommandLine("", 0, 7, "xml") }

ProgramInit ==
    /\ pc = "main"
    /\ exitCode = -1
    /\ interrupt = FALSE
    /\ tickerC = FALSE
    /\ totalSentStart = Zero64
    /\ totalRecvStart = Zero64
    /\ prevNetIO = ZeroIO
    /\ currentNetIO = ZeroIO
    /\ sentBytes = Zero64
    /\ recvBytes = Zero64
    /\ totalSent = Zero64
    /\ totalRecv = Zero64
    /\ usageBytes = Zero64
    /\ stats = ZeroStats
    /\ stdout = [n |-> 0, last |-> NoLine]
    /\ stderr = [n |-> 0, last |-> ""]
    /\ good = <<ZeroIO, ZeroIO>>
    /\ sumSent = Zero64
    /\ sumRecv = Zero64
    /\ nondecreasing = TRUE
    /\ queried = "none"
    /\ skipped = "no"

Init ==
    /\ \E c \in CommandLines :
         /\ interfaceName = c.i
         /\ refreshInterval = c.t
         /\ precision = c.p
         /\ format = c.f
    /\ ProgramInit
    /\ arg = NoArg
    /\ ret = NoRet

\* ------------------------------------------------------------------ output
\* log.Fatal: the message on standard error, then os.Exit(1)
Fatal(msg) ==
    /\ stderr' = [n |-> 1 - stderr.n, last |-> msg]
    /\ pc' = "exited"
    /\ exitCode' = 1

\* log.Printf
Logged(msg) == stderr' = [n |-> 1 - stderr.n, last |-> msg]

\* printTable writes every value with %.*f at the given precision; printJSON
\* marshals the values as they are
printTable(s, p) ==
    stdout' = [n |-> 1 - stdout.n,
               last |-> [format |-> "table", precision |-> p, stats |-> s]]

printJSON(s) ==
    stdout' = [n |-> 1 - stdout.n,
               last |-> [format |-> "json", precision |-> 0, stats |-> s]]

\* fmt.Print("\n") after flag.Usage()
printNewline ==
    stdout' = [n |-> 1 - stdout.n,
               last |-> [format |-> "newline", precision |-> 0, stats |-> ZeroStats]]

\* -------------------------------------------------------------------- main
\* variant: the precision check lets 7 through
mainValidate_Precision7 ==
    /\ pc = "main"
    /\ IF interfaceName = ""
         THEN /\ printNewline
              /\ Fatal("Error: the -i (interface) flag is required.")
       ELSE IF precision < 0 \/ precision > 7
         THEN Fatal("Precision must be between 0 and 6 decimal places") /\ UNCHANGED stdout
       ELSE IF refreshInterval <= 0 \/ refreshInterval > 3600
         THEN Fatal("Refresh interval must be between 1 and 3600 seconds") /\ UNCHANGED stdout
       ELSE IF format # "json" /\ format # "table"
         THEN Fatal("Invalid output format. Allowed values: json, table") /\ UNCHANGED stdout
       ELSE /\ pc' = "collectStats"
            /\ UNCHANGED <<exitCode, stderr, stdout>>
    /\ UNCHANGED <<flags, interrupt, tickerC, locals, stats, history, scaler>>

\* flag.Parse and the four checks, then NewNetworkMonitor and signal.Notify
mainValidate ==
    /\ pc = "main"
    /\ IF interfaceName = ""
         THEN /\ printNewline
              /\ Fatal("Error: the -i (interface) flag is required.")
       ELSE IF precision < 0 \/ precision > 6
         THEN Fatal("Precision must be between 0 and 6 decimal places") /\ UNCHANGED stdout
       ELSE IF refreshInterval <= 0 \/ refreshInterval > 3600
         THEN Fatal("Refresh interval must be between 1 and 3600 seconds") /\ UNCHANGED stdout
       ELSE IF format # "json" /\ format # "table"
         THEN Fatal("Invalid output format. Allowed values: json, table") /\ UNCHANGED stdout
       ELSE /\ pc' = "collectStats"
            /\ UNCHANGED <<exitCode, stderr, stdout>>
    /\ UNCHANGED <<flags, interrupt, tickerC, locals, stats, history, scaler>>

\* a SIGINT or SIGTERM after signal.Notify: buffered in nm.interrupt when
\* there is room, dropped otherwise
Signal ==
    /\ pc \in {"collectStats", "select", "tick"}
    /\ ~interrupt
    /\ interrupt' = TRUE
    /\ UNCHANGED <<flags, pc, exitCode, tickerC, locals, stats, stdout, stderr, history, scaler>>

\* the ticker's period elapses: a tick is buffered in ticker.C when there is
\* room, dropped otherwise
TimerFire ==
    /\ Running
    /\ ~tickerC
    /\ tickerC' = TRUE
    /\ UNCHANGED <<flags, pc, exitCode, interrupt, locals, stats, stdout, stderr, history, scaler>>

\* ------------------------------------------------------------ collectStats
\* variant: the initial failure is logged and the loop entered all the same
InitialQueryFailed_Continue ==
    /\ Logged("Network monitoring error: error getting initial network stats")
    /\ pc' = "select"
    /\ queried' = "initial"
    /\ UNCHANGED <<exitCode, locals, good, sumSent, sumRecv, nondecreasing, skipped>>

\* the initial query failed: collectStats returns the error, main log.Fatalf's
InitialQueryFailed ==
    /\ Fatal("Network monitoring error: error getting initial network stats")
    /\ queried' = "initial"
    /\ UNCHANGED <<locals, good, sumSent, sumRecv, nondecreasing, skipped>>

InitialQueryOk(initialNetIO) ==
    /\ totalSentStart' = initialNetIO.BytesSent
    /\ totalRecvStart' = initialNetIO.BytesRecv
    /\ prevNetIO' = initialNetIO
    /\ pc' = "select"
    /\ good' = <<initialNetIO, initialNetIO>>
    /\ queried' = "initial"
    /\ UNCHANGED <<exitCode, stderr, currentNetIO, sentBytes, recvBytes, totalSent,
                   totalRecv, usageBytes, sumSent, sumRecv, nondecreasing, skipped>>

collectStatsEnter ==
    /\ pc = "collectStats"
    /\ \E os \in OSResponses :
         LET r == getInterfaceIOCounters(interfaceName, os)
         IN  IF r.err # "nil" THEN InitialQueryFailed ELSE InitialQueryOk(r.io)
    /\ UNCHANGED <<flags, interrupt, tickerC, stats, stdout, scaler>>

\* variant: the failed query's empty result is taken as the previous snapshot
TickQueryFailed_Advance ==
    /\ Logged("Error getting network stats")
    /\ prevNetIO' = ZeroIO
    /\ queried' = "loop"
    /\ skipped' = "pending"
    /\ UNCHANGED <<pc, totalSentStart, totalRecvStart, currentNetIO, sentBytes, recvBytes,
                   totalSent, totalRecv, usageBytes, good, sumSent, sumRecv, nondecreasing>>

\* case <-ticker.C, the query failed: log and continue
TickQueryFailed ==
    /\ Logged("Error getting network stats")
    /\ queried' = "loop"
    /\ skipped' = "pending"
    /\ UNCHANGED <<pc, locals, good, sumSent, sumRecv, nondecreasing>>

\* case <-ticker.C, the query succeeded
TickQueryOk(io) ==
    /\ currentNetIO' = io
    /\ pc' = "tick"
    /\ good' = <<io, good[1]>>
    /\ nondecreasing' = (/\ nondecreasing
                         /\ BigGeq(io.BytesSent, good[1].BytesSent)
                         /\ BigGeq(io.BytesRecv, good[1].BytesRecv))
    /\ queried' = "loop"
    /\ UNCHANGED <<stderr, totalSentStart, totalRecvStart, prevNetIO, sentBytes,
                   recvBytes, totalSent, totalRecv, usageBytes, sumSent, sumRecv, skipped>>

TickerCase ==
    /\ pc = "select"
    /\ tickerC
    /\ tickerC' = FALSE
    /\ \E os \in OSResponses :
         LET r == getInterfaceIOCounters(interfaceName, os)
         IN  IF r.err # "nil" THEN TickQueryFailed ELSE TickQueryOk(r.io)
    /\ UNCHANGED <<flags, exitCode, interrupt, stats, stdout, scaler>>

\* variant: the received total is left out
totalUsageBytes_SentOnly(sent, recv) == sent

\* totalSent+totalRecv
totalUsageBytes(sent, recv) == Add64(sent, recv)

\* the rest of the ticker case: deltas, totals, nm.stats, the printer and
\* prevNetIO; the parameters are what the baselines and prevNetIO hold after it
TickCore(sentStart, recvStart, prev) ==
    LET sent  == Sub64(currentNetIO.BytesSent, prevNetIO.BytesSent)
        recv  == Sub64(currentNetIO.BytesRecv, prevNetIO.BytesRecv)
        tsent == Sub64(currentNetIO.BytesSent, totalSentStart)
        trecv == Sub64(currentNetIO.BytesRecv, totalRecvStart)
        both  == totalUsageBytes(tsent, trecv)
        s     == [Interface  |-> interfaceName,
                  SentSpeed  |-> calculateSpeed(sent, refreshInterval, precision),
                  RecvSpeed  |-> calculateSpeed(recv, refreshInterval, precision),
                  TotalSent  |-> calculateUsage(tsent, precision),
                  TotalRecv  |-> calculateUsage(trecv, precision),
                  TotalUsage |-> calculateUsage(both, precision)]
    IN  /\ pc = "tick"
        /\ sentBytes' = sent
        /\ recvBytes' = recv
        /\ totalSent' = tsent
        /\ totalRecv' = trecv
        /\ usageBytes' = both
        /\ stats' = s
        /\ IF format = "table" THEN printTable(s, precision) ELSE printJSON(s)
        /\ totalSentStart' = sentStart
        /\ totalRecvStart' = recvStart
        /\ prevNetIO' = prev
        /\ pc' = "select"
        /\ sumSent' = Add64(sumSent, sent)
        /\ sumRecv' = Add64(sumRecv, recv)
        /\ skipped' = IF skipped = "pending" THEN "recovered" ELSE "no"
        /\ UNCHANGED <<flags, exitCode, interrupt, tickerC, currentNetIO, stderr, good,
                       nondecreasing, queried, scaler>>

\* variants: the baselines follow the current reading; prevNetIO is not advanced
TickBody_Rebase == TickCore(currentNetIO.BytesSent, currentNetIO.BytesRecv, currentNetIO)
TickBody_StalePrev == TickCore(totalSentStart, totalRecvStart, prevNetIO)

\* lines 202-227: the baselines stay, prevNetIO = currentNetIO
TickBody == TickCore(totalSentStart, totalRecvStart, currentNetIO)

\* variant: the interrupt case is taken only when no tick is waiting
InterruptCase_TickerFirst ==
    /\ pc = "select"
    /\ ~tickerC
    /\ interrupt
    /\ interrupt' = FALSE
    /\ pc' = "exited"
    /\ exitCode' = 0
    /\ UNCHANGED <<flags, tickerC, locals, stats, stdout, stderr, history, scaler>>

\* case <-nm.interrupt: collectStats returns nil and main returns
InterruptCase ==
    /\ pc = "select"
    /\ interrupt
    /\ interrupt' = FALSE
    /\ pc' = "exited"
    /\ exitCode' = 0
    /\ UNCHANGED <<flags, tickerC, locals, stats, stdout, stderr, history, scaler>>

Next ==
    \/ mainValidate
    \/ Signal
    \/ TimerFire
    \/ collectStatsEnter
    \/ TickerCase
    \/ TickBody
    \/ InterruptCase

Spec == Init /\ [][Next]_vars

\* the step that ends a tick; under Next it is a TickBody step, and it is
\* possible exactly while pc = "tick"
TickEnds == pc = "tick" /\ pc' = "select"

\* Go's select picks among its ready cases at random, so a case that is ready
\* again and again is taken; a tick that has begun runs to its end
FairSpec == Spec /\ WF_pc(TickEnds) /\ SF_vars(InterruptCase)

\* ---------------------------------------------- the unit scaler on its own
ScaleIntervals == {1, 2, 3600}
ScalePrecisions == {0, 2, 6}
Offsets == 0..MaxOffset

\* byte counts at, just below and just above every point where the unit of a
\* usage or of a speed changes, the smallest counts and the largest uint64
ScaleBytes ==
    {U64(d) : d \in Offsets}
    \cup {Sub64(Zero64, <<1, 0, 0, 0>>)}
    \cup UNION {{Add64(Wrap64(BigMul(FromNat(t), i)), U64(d)),
                 Sub64(Wrap64(BigMul(FromNat(t), i)), U64(d))} :
                  t \in {KB, MB, GB}, i \in ScaleIntervals, d \in Offsets}

ScaleInit ==
    /\ interfaceName = "eth0"
    /\ refreshInterval = Defaults.t
    /\ precision = Defaults.p
    /\ format = Defaults.f
    /\ ProgramInit
    /\ arg \in [bytes : ScaleBytes, interval : ScaleIntervals, precision : ScalePrecisions]
    /\ ret = NoRet

ScaleCall ==
    /\ ret = NoRet
    /\ ret' = [speed |-> calculateSpeed(arg.bytes, arg.interval, arg.precision),
               usage |-> calculateUsage(arg.bytes, arg.precision)]
    /\ UNCHANGED <<flags, pc, exitCode, interrupt, tickerC, locals, stats,
                   stdout, stderr, history, arg>>

SpecScale == ScaleInit /\ [][ScaleCall]_vars

\* ================================================================== claims
\* a snapshot has been printed
Rendered == stdout.last.format \in {"table", "json"}

\* d is the difference cur - base of the integers
ExactDifference(d, cur, base) == BigAdd(d, base) = Strip(cur)

\* d is cur - base + 2^64
WrappedDifference(d, cur, base) == BigAdd(d, base) = BigAdd(cur, TwoTo64)

\* C1, as claimed: after a tick that read a counter below the previous
\* snapshot, the delta given to calculateSpeed is the (negative) difference
\* current - previous, and a total read below the start baseline is the
\* (negative) difference current - start.
C1_NegativeDelta ==
    (pc # "tick" /\ Rendered) =>
        /\ BigLess(good[1].BytesSent, good[2].BytesSent)
             => ExactDifference(sentBytes, good[1].BytesSent, good[2].BytesSent)
        /\ BigLess(good[1].BytesRecv, good[2].BytesRecv)
             => ExactDifference(recvBytes, good[1].BytesRecv, good[2].BytesRecv)
        /\ BigLess(good[1].BytesSent, totalSentStart)
             => ExactDifference(totalSent, good[1].BytesSent, totalSentStart)
        /\ BigLess(good[1].BytesRecv, totalRecvStart)
             => ExactDifference(totalRecv, good[1].BytesRecv, totalRecvStart)

\* C1, amended: after a tick that read a counter below the previous snapshot,
\* the delta given to calculateSpeed is current - previous + 2^64, a
\* non-negative uint64, and the speed rendered is the scaling of that number;
\* likewise a total read below the start baseline is current - start + 2^64.
C1_WrappedDelta ==
    (pc # "tick" /\ Rendered) =>
        /\ BigLess(good[1].BytesSent, good[2].BytesSent)
             => WrappedDifference(sentBytes, good[1].BytesSent, good[2].BytesSent)
        /\ BigLess(good[1].BytesRecv, good[2].BytesRecv)
             => WrappedDifference(recvBytes, good[1].BytesRecv, good[2].BytesRecv)
        /\ BigLess(good[1].BytesSent, totalSentStart)
             => WrappedDifference(totalSent, good[1].BytesSent, totalSentStart)
        /\ BigLess(good[1].BytesRecv, totalRecvStart)
             => WrappedDifference(totalRecv, good[1].BytesRecv, totalRecvStart)
        /\ stdout.last.stats.SentSpeed = calculateSpeed(sentBytes, refreshInterval, precision)
        /\ stdout.last.stats.RecvSpeed = calculateSpeed(recvBytes, refreshInterval, precision)
        /\ stdout.last.stats.TotalSent = calculateUsage(totalSent, precision)
        /\ stdout.last.stats.TotalRecv = calculateUsage(totalRecv, precision)

\* the sent counter fell below the previous snapshot and below the baseline,
\* and the line printed shows a speed in GB/s
C1_Witness ==
    /\ pc = "select"
    /\ Rendered
    /\ BigLess(good[1].BytesSent, good[2].BytesSent)
    /\ BigLess(good[1].BytesSent, totalSentStart)
    /\ stdout.last.stats.SentSpeed.Unit = "GB/s"

\* C2: a tick whose query fails (a message is logged while Running) prints
\* nothing, leaves control at the select, and leaves the baselines, prevNetIO
\* and nm.stats as they were; and every tick that prints has computed its
\* deltas against the result of the last successful query before its own.
C2_FailedTickSkips ==
    [][ /\ (Running /\ stderr'.n # stderr.n)
            => /\ pc' = "select"
               /\ UNCHANGED <<stdout, totalSentStart, totalRecvStart, prevNetIO, stats>>
        /\ (stdout'.n # stdout.n)
            => /\ sentBytes' = Sub64(good[1].BytesSent, good[2].BytesSent)
               /\ recvBytes' = Sub64(good[1].BytesRecv, good[2].BytesRecv)
      ]_vars

\* a tick has printed after one or more failed ticks, with a delta that spans them
C2_Witness ==
    /\ skipped = "recovered"
    /\ stderr.last = "Error getting network stats"
    /\ sentBytes # Zero64
    /\ pc = "select"

\* C3: under FairSpec a signal buffered while Running leads to Stopped (exit
\* status 0); nothing changes once the process has exited; and a tick in
\* progress ends by printing and returning to the select, never by exiting.
C3_StopReached ==
    /\ (Running /\ interrupt) ~> Stopped
    /\ [][ /\ (pc = "exited") => UNCHANGED vars
           /\ (pc = "tick" /\ pc' # "tick") => (pc' = "select" /\ stdout'.n # stdout.n)
         ]_vars

\* stopped after printing, with a timer tick still waiting
C3_Witness == Stopped /\ Rendered /\ tickerC

InitialQueryFailure ==
    stderr.last = "Network monitoring error: error getting initial network stats"

\* C4: once the initial query has failed the process has exited with status
\* 1 after that one query, Running was never entered (prevNetIO and the
\* ticker were never set), nothing was printed, and nothing happens afterwards.
C4_FailFast ==
    /\ [](InitialQueryFailure =>
            /\ pc = "exited"
            /\ exitCode = 1
            /\ queried = "initial"
            /\ prevNetIO = ZeroIO
            /\ good = <<ZeroIO, ZeroIO>>
            /\ ~tickerC
            /\ ~Rendered
            /\ stdout.n = 0)
    /\ [][InitialQueryFailure => UNCHANGED vars]_vars

\* the initial query failed although a signal was already waiting
C4_Witness == InitialQueryFailure /\ exitCode = 1 /\ interrupt

\* C5, as claimed: the bytes scaled into TotalUsage are the integer sum of
\* the bytes scaled into TotalSent and TotalRecv.
C5_IntegerSum ==
    Rendered => BigEq(usageBytes, BigAdd(totalSent, totalRecv))

\* C5, amended: the bytes scaled into TotalUsage are the sum of the bytes
\* scaled into TotalSent and TotalRecv modulo 2^64: the integer sum, or the
\* integer sum less 2^64 when it is 2^64 or more.
C5_WrappedSum ==
    Rendered =>
        /\ \/ BigAdd(totalSent, totalRecv) = Strip(usageBytes)
           \/ BigAdd(totalSent, totalRecv) = BigAdd(usageBytes, TwoTo64)
        /\ stats.TotalUsage = calculateUsage(usageBytes, precision)
        /\ stats.TotalSent = calculateUsage(totalSent, precision)
        /\ stats.TotalRecv = calculateUsage(totalRecv, precision)

\* a line was printed whose two totals add up to 2^64 or more
C5_Witness == Rendered /\ BigGeq(BigAdd(totalSent, totalRecv), TwoTo64)

Called == ret # NoRet

SpeedUnit == [B |-> "B/s", KB |-> "KB/s", MB |-> "MB/s", GB |-> "GB/s"]

\* bytes / interval rounded to the nearest integer, halves upwards
RoundedRate(bytes, interval) ==
    BigDiv(BigAdd(BigMul(Strip(bytes), 2), FromNat(interval)), 2 * interval)

\* bytes / interval rounded down
TruncatedRate(bytes, interval) == BigDiv(Strip(bytes), interval)

\* C6, as claimed: calculateSpeed(bytes, interval, p) picks the speed unit
\* that corresponds to the unit calculateUsage picks for bytes / interval
\* rounded to the nearest integer.
C6_RoundedRate ==
    Called =>
        ret.speed.Unit =
            SpeedUnit[calculateUsage(RoundedRate(arg.bytes, arg.interval), arg.precision).Unit]

\* C6, amended: calculateSpeed(bytes, interval, p) picks the speed unit that
\* corresponds to the unit calculateUsage picks for bytes / interval rounded
\* down to an integer.
C6_TruncatedRate ==
    Called =>
        ret.speed.Unit =
            SpeedUnit[calculateUsage(TruncatedRate(arg.bytes, arg.interval), arg.precision).Unit]

\* 2047 bytes over 2 seconds: 1023.5 B/s, below the KB/s threshold
C6_Witness ==
    /\ Called
    /\ arg.bytes = U64(2047)
    /\ arg.interval = 2
    /\ ret.speed.Unit = "B/s"

UnitThreshold == [B |-> 1, KB |-> KB, MB |-> MB, GB |-> GB]

UnitsReached(bytes) ==
    {u \in DOMAIN UnitThreshold : BigGeq(bytes, FromNat(UnitThreshold[u]))}

\* the unit of the largest threshold that bytes reaches, B when it reaches none
LargestUnit(bytes) ==
    IF UnitsReached(bytes) = {} THEN "B"
    ELSE CHOOSE u \in UnitsReached(bytes) :
            \A v \in UnitsReached(bytes) : UnitThreshold[v] <= UnitThreshold[u]

\* C7: calculateUsage picks the unit of the largest threshold among 1, 1024,
\* 1024^2, 1024^3 that bytes reaches, B below 1024; 0 bytes give value 0 in
\* B; bytes equal to a threshold give value 1 in that threshold's unit.
C7_LargestUnit ==
    Called =>
        /\ ret.usage.Unit = LargestUnit(arg.bytes)
        /\ (arg.bytes = Zero64) => (ret.usage = [Value |-> <<>>, Unit |-> "B"])
        /\ \A u \in DOMAIN UnitThreshold :
             (Strip(arg.bytes) = FromNat(UnitThreshold[u]))
                => ret.usage = [Value |-> BigMulAll(<<1>>, Pow10(arg.precision)), Unit |-> u]

\* exactly 1024^2 bytes, shown as 1 MB
C7_Witness ==
    /\ Called
    /\ arg.bytes = U64(MB)
    /\ arg.precision = 2
    /\ ret.usage = [Value |-> <<100>>, Unit |-> "MB"]

ValidConfig ==
    /\ interfaceName # ""
    /\ precision \in 0..6
    /\ refreshInterval \in 1..3600
    /\ format \in {"json", "table"}

\* C8: with an empty interface name, a precision outside 0..6, an interval
\* outside 1..3600 or a format other than json and table, the process is
\* either still before the checks or has exited with status 1, having made no
\* counter query and printed no snapshot; Running implies a valid configuration.
C8_ValidationGates ==
    /\ ~ValidConfig =>
          /\ pc \in {"main", "exited"}
          /\ (pc = "exited") => (exitCode = 1)
          /\ queried = "none"
          /\ ~Rendered
          /\ stats = ZeroStats
    /\ Running => ValidConfig

\* -t 3601 was refused
C8_Witness ==
    /\ refreshInterval = 3601
    /\ pc = "exited"
    /\ exitCode = 1
    /\ stderr.last = "Refresh interval must be between 1 and 3600 seconds"

\* C9: while no successful query has read less than the one before it, every
\* tick that prints leaves totalSent and totalRecv at least what the
\* preceding printing tick left them.
C9_MonotonicTotals ==
    [][ (stdout'.n # stdout.n /\ nondecreasing)
            => /\ BigGeq(totalSent', totalSent)
               /\ BigGeq(totalRecv', totalRecv)
      ]_vars

\* counters never fell; a tick raised the total, a tick failed, and the tick
\* after it kept the total
C9_Witness ==
    /\ nondecreasing
    /\ skipped = "recovered"
    /\ sentBytes = Zero64
    /\ totalSent # Zero64
    /\ pc = "select"

\* C10: totalSent is the uint64 sum of every sentBytes so far and totalRecv
\* that of every recvBytes; prevNetIO is the newest successful query result
\* at the select, and still the one before it while a tick builds its line.
C10_TotalsAreDeltaSums ==
    /\ totalSent = sumSent
    /\ totalRecv = sumRecv
    /\ (pc = "select") => (prevNetIO = good[1])
    /\ (pc = "tick") => (prevNetIO = good[2] /\ currentNetIO = good[1])

\* after failed ticks, a tick read the sent counter below the baseline: the
\* sum of the deltas passed 2^64
C10_Witness ==
    /\ skipped = "recovered"
    /\ pc = "select"
    /\ BigLess(good[1].BytesSent, totalSentStart)
    /\ totalSent = sumSent
    /\ totalSent # Zero64

====
